---- MODULE Spec2Model ----
(***************************************************************************)
(* scripts/generate-architecture-diagram.py as a state machine.            *)
(*                                                                         *)
(* The script is a straight-line module body: it creates a matplotlib      *)
(* figure, draws a title, 19 components, 20 arrows, 5 layer labels and a   *)
(* legend, saves the figure as PNG and as SVG and prints two lines.  One   *)
(* step of the model is one top-level statement of the module body.        *)
(*                                                                         *)
(* All lengths are in hundredths of a data unit (9.5 is written 950), so   *)
(* that x + width/2 is an integer for every width the script uses.         *)
(* Strings are written as Python writes them with non-ASCII characters     *)
(* and newlines escaped (U+2705 is written \u2705).                        *)
(***************************************************************************)
EXTENDS Integers, Sequences, FiniteSets, TLC

VARIABLES
    script,     \* the module body being executed: a sequence of statements
    pc,         \* index of the statement to execute next
    status,     \* "running", "done" (module body finished), "failed" (unhandled exception)
    exc,        \* the exception that ended the run, "none" otherwise
    exitcode,   \* process exit status; -1 while the process is running
    fig,        \* the Figure: [created, figsize, tight]
    ax,         \* the Axes: [xlim, ylim, axison, patches, texts]
    fs,         \* filesystem precondition: [dirExists, canOpen]
    files,      \* what this run wrote: path -> <<>> or <<content>>
    out,        \* standard output as the process finds it: [mode, encodable, room]
    outbuf,     \* lines held in the stdout buffer, not yet written
    stdout      \* lines written to standard output so far

vars == <<script, pc, status, exc, exitcode, fig, ax, fs, files, out, outbuf, stdout>>

(***************************************************************************)
(* Literal data of the script                                              *)
(***************************************************************************)

colors ==
    [frontend |-> "#E8F4FD", frontend_border |-> "#1976D2",
     state |-> "#FFF3E0", state_border |-> "#F57C00",
     api |-> "#E8F5E8", api_border |-> "#388E3C",
     ai |-> "#F3E5F5", ai_border |-> "#7B1FA2",
     data |-> "#FFF8E1", data_border |-> "#FBC02D",
     arrow |-> "#666666"]

frontend_y == 950
state_y == 750
api_y == 550
ai_y == 350
data_y == 150

PngPath == "public/architecture-diagram.png"
SvgPath == "public/architecture-diagram.svg"
Paths == {PngPath, SvgPath}

\* Statement constructors; line is the source line of the statement.
Comp(line, x, y, width, height, text, color_key) ==
    [op |-> "create_component", line |-> line, x |-> x, y |-> y,
     width |-> width, height |-> height, text |-> text,
     color_key |-> color_key, fontsize |-> 9]

Arrow(line, sx, sy, ex, ey) ==
    [op |-> "create_arrow", line |-> line, start |-> <<sx, sy>>, end |-> <<ex, ey>>]

Text(line, x, y, s, ha, va, fontsize, color, bbox) ==
    [op |-> "text", line |-> line, x |-> x, y |-> y, s |-> s, ha |-> ha,
     va |-> va, fontsize |-> fontsize, color |-> color, bbox |-> bbox]

Layout ==
    << [op |-> "subplots", line |-> 13, figsize |-> <<16, 12>>],
       [op |-> "set_xlim", line |-> 14, lo |-> 0, hi |-> 1600],
       [op |-> "set_ylim", line |-> 15, lo |-> 0, hi |-> 1200],
       [op |-> "axis_off", line |-> 16],
       Text(59, 800, 1150, "FlowMind Architecture Flow", "center", "center", 20, "#2D3748", FALSE),
       \* Layer 1: frontend components
       Comp(64, 100, frontend_y, 200, 100, "\\U0001f3a8 User Interface\\nChatInterface", "frontend"),
       Comp(65, 350, frontend_y, 200, 100, "\\U0001f3e0 Welcome\\nScreen", "frontend"),
       Comp(66, 600, frontend_y, 200, 100, "\\U0001f4da Course\\nSelector", "frontend"),
       Comp(67, 850, frontend_y, 200, 100, "\\U0001f4ad Messages\\nContainer", "frontend"),
       Comp(68, 1100, frontend_y, 200, 100, "\\U0001f4cb Message\\nDetail Panel", "frontend"),
       Comp(69, 1350, frontend_y, 200, 100, "\\u2328\\ufe0f Chat Input\\n& Header", "frontend"),
       \* Layer 2: state management
       Comp(73, 700, state_y, 250, 100, "\\U0001f5c3\\ufe0f Zustand Store\\nConversation State", "state"),
       \* Layer 3: API layer
       Comp(77, 200, api_y, 250, 100, "\\U0001f50c Chat API\\n/api/chat", "api"),
       Comp(78, 550, api_y, 250, 100, "\\U0001f9e0 RAG System\\nRetrieval Logic", "api"),
       Comp(79, 900, api_y, 250, 100, "\\U0001f4be Local RAG\\nFallback", "api"),
       Comp(80, 1200, api_y, 250, 100, "\\U0001f50d Qdrant\\nVector DB", "api"),
       \* Layer 4: AI services
       Comp(84, 300, ai_y, 250, 100, "\\U0001f916 OpenAI API\\nGPT-4o-mini", "ai"),
       Comp(85, 650, ai_y, 250, 100, "\\U0001f4ca Embeddings\\ntext-embedding", "ai"),
       Comp(86, 1000, ai_y, 250, 100, "\\U0001f4dd HyDE System\\nQuery Enhancement", "ai"),
       \* Layer 5: data layer
       Comp(90, 200, data_y, 200, 100, "\\U0001f4f9 VTT\\nTranscripts", "data"),
       Comp(91, 450, data_y, 200, 100, "\\U0001f4e6 Content\\nChunks", "data"),
       Comp(92, 700, data_y, 200, 100, "\\U0001f5c2\\ufe0f Vector Store\\nEmbeddings", "data"),
       Comp(93, 950, data_y, 200, 100, "\\U0001f4cb Metadata\\nTimestamps", "data"),
       Comp(94, 1200, data_y, 250, 100, "\\U0001f3af Search Results\\nRelevance Scoring", "data"),
       \* Frontend to state
       Arrow(98, 200, frontend_y, 800, state_y + 100),
       Arrow(99, 700, frontend_y, 800, state_y + 100),
       Arrow(100, 950, frontend_y, 850, state_y + 100),
       \* Frontend to API
       Arrow(103, 200, frontend_y, 300, api_y + 100),
       Arrow(104, 1450, frontend_y, 350, api_y + 100),
       \* State to API
       Arrow(107, 800, state_y, 650, api_y + 100),
       \* API internal flow
       Arrow(110, 350, api_y, 650, api_y + 50),
       Arrow(111, 700, api_y, 1000, api_y + 50),
       Arrow(112, 800, api_y, 1300, api_y + 50),
       \* API to AI
       Arrow(115, 350, api_y, 400, ai_y + 100),
       Arrow(116, 650, api_y, 750, ai_y + 100),
       Arrow(117, 700, api_y, 1100, ai_y + 100),
       \* Data processing flow
       Arrow(120, 300, data_y + 100, 550, data_y + 100),
       Arrow(121, 550, data_y + 100, 800, data_y + 100),
       Arrow(122, 800, data_y + 100, 1050, data_y + 100),
       Arrow(123, 1000, data_y + 100, 1300, data_y + 100),
       \* AI to data
       Arrow(126, 750, ai_y, 800, data_y + 100),
       Arrow(127, 1100, ai_y, 1300, data_y + 100),
       \* Return flows
       Arrow(130, 800, data_y + 100, 650, api_y),
       Arrow(131, 400, ai_y, 300, api_y),
       \* Layer labels
       Text(134, 20, frontend_y + 50, "Frontend\\nLayer", "left", "center", 10, colors["frontend_border"], FALSE),
       Text(136, 20, state_y + 50, "State\\nLayer", "left", "center", 10, colors["state_border"], FALSE),
       Text(138, 20, api_y + 50, "API\\nLayer", "left", "center", 10, colors["api_border"], FALSE),
       Text(140, 20, ai_y + 50, "AI\\nServices", "left", "center", 10, colors["ai_border"], FALSE),
       Text(142, 20, data_y + 50, "Data\\nLayer", "left", "center", 10, colors["data_border"], FALSE),
       \* Key features legend
       Text(156, 50, 50, "\\n\\U0001f680 Key Features:\\n\\u2022 Real-time streaming responses\\n\\u2022 Semantic search with embeddings  \\n\\u2022 HyDE query enhancement\\n\\u2022 Course-specific conversations\\n\\u2022 Two-column expandable layout\\n\\u2022 Markdown export functionality\\n", "left", "bottom", 8, "black", TRUE),
       \* Save the diagram
       [op |-> "tight_layout", line |-> 161],
       [op |-> "savefig", line |-> 162, fname |-> PngPath, format |-> "png", dpi |-> 300],
       [op |-> "savefig", line |-> 164, fname |-> SvgPath, format |-> "svg", dpi |-> 100],
       [op |-> "print", line |-> 167, s |-> "\\u2705 Architecture diagram generated successfully!",
        ascii |-> FALSE],
       [op |-> "print", line |-> 168, s |-> "\\U0001f4c1 Saved as: public/architecture-diagram.png & .svg",
        ascii |-> FALSE] >>

(***************************************************************************)
(* The two helper functions of the script, as functions of the Axes.       *)
(* Each returns [exc, ax]: the exception raised ("none" if none) and the   *)
(* Axes after the call.                                                    *)
(***************************************************************************)

Box(x, y, width, height, facecolor, edgecolor) ==
    [type |-> "FancyBboxPatch", x |-> x, y |-> y, width |-> width,
     height |-> height, boxstyle |-> "round,pad=0.05",
     facecolor |-> facecolor, edgecolor |-> edgecolor, linewidth |-> 2]

Label(x, y, s, ha, va, fontsize, color, bbox) ==
    [x |-> x, y |-> y, s |-> s, ha |-> ha, va |-> va,
     fontsize |-> fontsize, color |-> color, bbox |-> bbox]

add_patch(a, p) == [a EXCEPT !.patches = Append(@, p)]

add_text(a, t) == [a EXCEPT !.texts = Append(@, t)]

\* The border key is built with a hyphen.
BorderKey_hyphen(color_key) == color_key \o "-border"

\* f"{color_key}_border"
BorderKey(color_key) == color_key \o "_border"

\* colors.get(key, grey) instead of colors[key]: an unknown key is drawn grey.
create_component_default(x, y, width, height, text, color_key, a, fontsize) ==
    LET face == IF color_key \in DOMAIN colors THEN colors[color_key] ELSE "#CCCCCC"
        edge == IF BorderKey(color_key) \in DOMAIN colors
                THEN colors[BorderKey(color_key)] ELSE "#CCCCCC"
    IN [exc |-> "none",
        ax |-> add_text(add_patch(a, Box(x, y, width, height, face, edge)),
                        Label(x + width \div 2, y + height \div 2, text,
                              "center", "center", fontsize, "black", FALSE))]

\* (x, y) swapped when the box is built.
create_component_swapped(x, y, width, height, text, color_key, a, fontsize) ==
    IF color_key \notin DOMAIN colors \/ BorderKey(color_key) \notin DOMAIN colors
    THEN [exc |-> "KeyError", ax |-> a]
    ELSE [exc |-> "none",
          ax |-> add_text(add_patch(a, Box(y, x, width, height, colors[color_key],
                                           colors[BorderKey(color_key)])),
                          Label(x + width \div 2, y + height \div 2, text,
                                "center", "center", fontsize, "black", FALSE))]

create_component(x, y, width, height, text, color_key, a, fontsize) ==
    IF color_key \notin DOMAIN colors
    THEN [exc |-> "KeyError", ax |-> a]                  \* colors[color_key]
    ELSE IF BorderKey(color_key) \notin DOMAIN colors
    THEN [exc |-> "KeyError", ax |-> a]                  \* colors[f"{color_key}_border"]
    ELSE [exc |-> "none",
          ax |-> add_text(add_patch(a, Box(x, y, width, height, colors[color_key],
                                           colors[BorderKey(color_key)])),
                          Label(x + width \div 2, y + height \div 2, text,
                                "center", "center", fontsize, "black", FALSE))]

Connection(start, end) ==
    [type |-> "ConnectionPatch", start |-> start, end |-> end,
     arrowstyle |-> "->", shrinkA |-> 5, shrinkB |-> 5, mutation_scale |-> 20,
     fc |-> colors["arrow"], ec |-> colors["arrow"], alpha |-> 70]

\* The patch is added twice.
create_arrow_twice(start, end, a) ==
    [exc |-> "none", ax |-> add_patch(add_patch(a, Connection(start, end)),
                                      Connection(start, end))]

\* The start point is used for both ends.
create_arrow_self(start, end, a) ==
    [exc |-> "none", ax |-> add_patch(a, Connection(start, start))]

create_arrow(start, end, a) ==
    [exc |-> "none", ax |-> add_patch(a, Connection(start, end))]

(***************************************************************************)
(* plt.savefig: opens the target for writing and serialises the figure.    *)
(* Opening fails with an OSError (FileNotFoundError / PermissionError)     *)
(* when public/ does not exist or the target cannot be opened for writing; *)
(* nothing is written then.  Returns [exc, files, ax].                     *)
(***************************************************************************)

Rendering(format, dpi, a) ==
    [format |-> format, dpi |-> dpi, bbox_inches |-> "tight",
     facecolor |-> "white", edgecolor |-> "none",
     patches |-> a.patches, texts |-> a.texts]

\* An export error is swallowed (try/except around the save).
savefig_swallow(fname, format, dpi, a, f, fl) ==
    IF ~f.dirExists \/ ~f.canOpen[fname]
    THEN [exc |-> "none", files |-> fl, ax |-> a]
    ELSE [exc |-> "none",
          files |-> [fl EXCEPT ![fname] = <<Rendering(format, dpi, a)>>], ax |-> a]

\* The figure is cleared after it has been saved.
savefig_clear(fname, format, dpi, a, f, fl) ==
    IF ~f.dirExists \/ ~f.canOpen[fname]
    THEN [exc |-> "OSError", files |-> fl, ax |-> a]
    ELSE [exc |-> "none",
          files |-> [fl EXCEPT ![fname] = <<Rendering(format, dpi, a)>>],
          ax |-> [a EXCEPT !.patches = <<>>, !.texts = <<>>]]

\* The target directory is created when it is missing (os.makedirs).
savefig_makedirs(fname, format, dpi, a, f, fl) ==
    IF f.dirExists /\ ~f.canOpen[fname]
    THEN [exc |-> "OSError", files |-> fl, ax |-> a]
    ELSE [exc |-> "none",
          files |-> [fl EXCEPT ![fname] = <<Rendering(format, dpi, a)>>], ax |-> a]

savefig(fname, format, dpi, a, f, fl) ==
    IF ~f.dirExists \/ ~f.canOpen[fname]
    THEN [exc |-> "OSError", files |-> fl, ax |-> a]
    ELSE [exc |-> "none",
          files |-> [fl EXCEPT ![fname] = <<Rendering(format, dpi, a)>>], ax |-> a]

(***************************************************************************)
(* sys.stdout.  out.mode is "none" (standard output closed: sys.stdout is  *)
(* None), "unbuffered" (python -u), "line" (a terminal) or "block" (a file *)
(* or a pipe); out.encodable says whether the encoding has U+2705 and      *)
(* U+1F4C1; out.room is the number of lines the stream accepts before      *)
(* writes to it fail.                                                      *)
(***************************************************************************)

\* The lines of buf that a flush gets written when `written` are out already.
Flushed(buf, written, o) ==
    IF Len(written) + Len(buf) <= o.room THEN buf
    ELSE SubSeq(buf, 1, o.room - Len(written))

\* The lines of buf a flush leaves pending.
Pending(buf, written, o) ==
    SubSeq(buf, Len(Flushed(buf, written, o)) + 1, Len(buf))

\* print(s): the text is encoded (UnicodeEncodeError when the encoding lacks
\* a character), handed to the stream's buffer, and written according to the
\* buffering; a failing write raises OSError and, on a buffered stream,
\* leaves the line pending.  Returns [exc, outbuf, stdout].
print(s, ascii, o, buf, written) ==
    IF o.mode = "none"
    THEN [exc |-> "none", outbuf |-> buf, stdout |-> written]
    ELSE IF ~ascii /\ ~o.encodable
    THEN [exc |-> "UnicodeEncodeError", outbuf |-> buf, stdout |-> written]
    ELSE IF o.mode = "block"
    THEN [exc |-> "none", outbuf |-> Append(buf, s), stdout |-> written]
    ELSE IF o.mode = "line"
    THEN [exc |-> IF Len(written) + Len(buf) + 1 <= o.room THEN "none" ELSE "OSError",
          outbuf |-> Pending(Append(buf, s), written, o),
          stdout |-> written \o Flushed(Append(buf, s), written, o)]
    ELSE IF Len(written) < o.room
    THEN [exc |-> "none", outbuf |-> buf, stdout |-> Append(written, s)]
    ELSE [exc |-> "OSError", outbuf |-> buf, stdout |-> written]

\* Interpreter exit: sys.stdout is flushed; when lines stay pending the flush
\* has failed ("Exception ignored in ... OSError") and the exit status is 120
\* instead of `code`.  Returns [exitcode, outbuf, stdout].
Finalize(code, o, buf, written) ==
    [exitcode |-> IF Pending(buf, written, o) = <<>> THEN code ELSE 120,
     outbuf |-> Pending(buf, written, o),
     stdout |-> written \o Flushed(buf, written, o)]

(***************************************************************************)
(* Control flow of the module body after a statement that raised e ("none" *)
(* if it did not) and left buf and written as the state of sys.stdout: an  *)
(* exception is caught by nothing, so the interpreter reports it and exits *)
(* with status 1 (120 when the flush at exit fails); otherwise the next    *)
(* statement runs.  After the last one the interpreter exits (Exit).       *)
(***************************************************************************)

\* The exception is caught and the script goes on with the next statement.
Control_continue(e, buf, written) ==
    /\ pc' = pc + 1
    /\ exc' = e
    /\ status' = "running"
    /\ exitcode' = -1
    /\ outbuf' = buf
    /\ stdout' = written

Control(e, buf, written) ==
    IF e # "none"
    THEN LET f == Finalize(1, out, buf, written)
         IN /\ pc' = pc
            /\ exc' = e
            /\ status' = "failed"
            /\ exitcode' = f.exitcode
            /\ outbuf' = f.outbuf
            /\ stdout' = f.stdout
    ELSE /\ pc' = pc + 1
         /\ exc' = "none"
         /\ status' = "running"
         /\ exitcode' = -1
         /\ outbuf' = buf
         /\ stdout' = written

Stmt == script[pc]

At(op) == status = "running" /\ pc \in DOMAIN script /\ script[pc].op = op

(***************************************************************************)
(* One action per kind of statement                                        *)
(***************************************************************************)

\* fig, ax = plt.subplots(1, 1, figsize=(16, 12))
Subplots ==
    /\ At("subplots")
    /\ fig' = [created |-> TRUE, figsize |-> Stmt.figsize, tight |-> FALSE]
    /\ ax' = [xlim |-> <<0, 100>>, ylim |-> <<0, 100>>, axison |-> TRUE,
              patches |-> <<>>, texts |-> <<>>]
    /\ Control("none", outbuf, stdout)
    /\ UNCHANGED <<script, fs, files, out>>

\* ax.set_xlim(0, 16)
SetXlim ==
    /\ At("set_xlim")
    /\ ax' = [ax EXCEPT !.xlim = <<Stmt.lo, Stmt.hi>>]
    /\ Control("none", outbuf, stdout)
    /\ UNCHANGED <<script, fig, fs, files, out>>

\* ax.set_ylim(0, 12)
SetYlim ==
    /\ At("set_ylim")
    /\ ax' = [ax EXCEPT !.ylim = <<Stmt.lo, Stmt.hi>>]
    /\ Control("none", outbuf, stdout)
    /\ UNCHANGED <<script, fig, fs, files, out>>

\* ax.axis('off')
AxisOff ==
    /\ At("axis_off")
    /\ ax' = [ax EXCEPT !.axison = FALSE]
    /\ Control("none", outbuf, stdout)
    /\ UNCHANGED <<script, fig, fs, files, out>>

\* ax.text(...): title, layer labels, legend
PlaceText ==
    /\ At("text")
    /\ ax' = add_text(ax, Label(Stmt.x, Stmt.y, Stmt.s, Stmt.ha, Stmt.va,
                                Stmt.fontsize, Stmt.color, Stmt.bbox))
    /\ Control("none", outbuf, stdout)
    /\ UNCHANGED <<script, fig, fs, files, out>>

\* create_component(x, y, width, height, text, color_key, ax)
PlaceNode ==
    /\ At("create_component")
    /\ LET r == create_component(Stmt.x, Stmt.y, Stmt.width, Stmt.height,
                                 Stmt.text, Stmt.color_key, ax, Stmt.fontsize)
       IN /\ ax' = r.ax
          /\ Control(r.exc, outbuf, stdout)
    /\ UNCHANGED <<script, fig, fs, files, out>>

\* create_arrow(start, end, ax)
DrawConnector ==
    /\ At("create_arrow")
    /\ LET r == create_arrow(Stmt.start, Stmt.end, ax)
       IN /\ ax' = r.ax
          /\ Control(r.exc, outbuf, stdout)
    /\ UNCHANGED <<script, fig, fs, files, out>>

\* plt.tight_layout()
TightLayout ==
    /\ At("tight_layout")
    /\ fig' = [fig EXCEPT !.tight = TRUE]
    /\ Control("none", outbuf, stdout)
    /\ UNCHANGED <<script, ax, fs, files, out>>

\* plt.savefig('public/architecture-diagram.png', dpi=300, ...)
ExportPng ==
    /\ At("savefig")
    /\ Stmt.format = "png"
    /\ LET r == savefig(Stmt.fname, Stmt.format, Stmt.dpi, ax, fs, files)
       IN /\ files' = r.files
          /\ ax' = r.ax
          /\ Control(r.exc, outbuf, stdout)
    /\ UNCHANGED <<script, fig, fs, out>>

\* plt.savefig('public/architecture-diagram.svg', format='svg', ...)
ExportSvg ==
    /\ At("savefig")
    /\ Stmt.format = "svg"
    /\ LET r == savefig(Stmt.fname, Stmt.format, Stmt.dpi, ax, fs, files)
       IN /\ files' = r.files
          /\ ax' = r.ax
          /\ Control(r.exc, outbuf, stdout)
    /\ UNCHANGED <<script, fig, fs, out>>

\* print(...)
PrintLine ==
    /\ At("print")
    /\ LET r == print(Stmt.s, Stmt.ascii, out, outbuf, stdout)
       IN Control(r.exc, r.outbuf, r.stdout)
    /\ UNCHANGED <<script, fig, ax, fs, files, out>>

\* End of the module body: the interpreter flushes sys.stdout and exits.
Exit ==
    /\ status = "running"
    /\ pc = Len(script) + 1
    /\ LET f == Finalize(0, out, outbuf, stdout)
       IN /\ exitcode' = f.exitcode
          /\ outbuf' = f.outbuf
          /\ stdout' = f.stdout
          /\ status' = IF f.exitcode = 0 THEN "done" ELSE "failed"
          /\ exc' = IF f.exitcode = 0 THEN "none" ELSE "OSError"
    /\ UNCHANGED <<script, pc, fig, ax, fs, files, out>>

Next ==
    \/ Subplots
    \/ SetXlim
    \/ SetYlim
    \/ AxisOff
    \/ PlaceText
    \/ PlaceNode
    \/ DrawConnector
    \/ TightLayout
    \/ ExportPng
    \/ ExportSvg
    \/ PrintLine
    \/ Exit

(***************************************************************************)
(* Initial states                                                          *)
(***************************************************************************)

\* Filesystem preconditions: without public/ no target can be opened.
FsStates ==
    { f \in [dirExists : BOOLEAN, canOpen : [Paths -> BOOLEAN]] :
        ~f.dirExists => \A p \in Paths : ~f.canOpen[p] }

\* Standard output as the process finds it.  Without a stream the other two
\* fields mean nothing and are fixed.
PrintCalls == { i \in DOMAIN Layout : Layout[i].op = "print" }

OutStates ==
    { o \in [mode : {"none", "unbuffered", "line", "block"},
             encodable : BOOLEAN,
             room : 0..Cardinality(PrintCalls)] :
        o.mode = "none" => (o.encodable /\ o.room = Cardinality(PrintCalls)) }

InitRun ==
    /\ pc = 1
    /\ status = "running"
    /\ exc = "none"
    /\ exitcode = -1
    /\ fig = [created |-> FALSE, figsize |-> <<0, 0>>, tight |-> FALSE]
    /\ ax = [xlim |-> <<0, 100>>, ylim |-> <<0, 100>>, axison |-> TRUE,
             patches |-> <<>>, texts |-> <<>>]
    /\ fs \in FsStates
    /\ files = [p \in Paths |-> <<>>]
    /\ out \in OutStates
    /\ outbuf = <<>>
    /\ stdout = <<>>

\* The script as written.
Init ==
    /\ script = Layout
    /\ InitRun

Spec == Init /\ [][Next]_vars

(***************************************************************************)
(* create_component on arbitrary style keys: the script with the style key *)
(* of one create_component call replaced by a key drawn from StyleKeys.    *)
(***************************************************************************)

NodeCategories == {"frontend", "state", "api", "ai", "data"}

StyleKeys == DOMAIN colors \cup {"unknown", "", "Frontend", "frontend_border_border"}

ComponentCalls == { i \in DOMAIN Layout : Layout[i].op = "create_component" }

InitKeys ==
    /\ \E i \in ComponentCalls : \E k \in StyleKeys :
          script = [Layout EXCEPT ![i].color_key = k]
    /\ InitRun

SpecKeys == InitKeys /\ [][Next]_vars

(***************************************************************************)
(* Vocabulary of the properties                                            *)
(***************************************************************************)

Terminal == status \in {"done", "failed"}

Written(p) == files[p] # <<>>

IsBox(p) == p.type = "FancyBboxPatch"

IsArrow(p) == p.type = "ConnectionPatch"

Count(seq, P(_)) == Cardinality({ i \in DOMAIN seq : P(seq[i]) })

BoxesOf(seq, key) ==
    Cardinality({ i \in DOMAIN seq : IsBox(seq[i]) /\ seq[i].facecolor = colors[key]
                                      /\ seq[i].edgecolor = colors[BorderKey(key)] })

\* create_arrow calls of the script that have been executed
ArrowCallsIssued == Cardinality({ i \in 1..(pc - 1) : script[i].op = "create_arrow" })

IsDrawing(op) == op \in {"text", "create_component", "create_arrow"}

\* The first savefig statement has been reached (or the run is past it).
AtExport == pc \in DOMAIN script => script[pc].op \in {"savefig", "print"}

\* Initialize = 0, drawing = 1, export = 2, confirmation = 3, done = 4
PhaseOf(i, st) ==
    IF st = "done" \/ i \notin DOMAIN script THEN 4
    ELSE IF script[i].op \in {"subplots", "set_xlim", "set_ylim", "axis_off"} THEN 0
    ELSE IF IsDrawing(script[i].op) THEN 1
    ELSE IF script[i].op \in {"tight_layout", "savefig"} THEN 2
    ELSE 3

InRect(pt, b) ==
    /\ b.x <= pt[1] /\ pt[1] <= b.x + b.width
    /\ b.y <= pt[2] /\ pt[2] <= b.y + b.height

\* The closed rectangles share no point.
Disjoint(b, c) ==
    \/ b.x + b.width < c.x \/ c.x + c.width < b.x
    \/ b.y + b.height < c.y \/ c.y + c.height < b.y

Writable == fs.dirExists /\ \A p \in Paths : fs.canOpen[p]

(***************************************************************************)
(* Properties                                                              *)
(***************************************************************************)

\* C1 as stated: whatever step fails, a terminal state has both output files
\* written or neither; never exactly one of them.
C1_BothOrNeither ==
    Terminal => (Written(PngPath) <=> Written(SvgPath))

\* C1 amended: a terminal state has neither file when a drawing call or the
\* PNG export failed, the PNG file alone when the SVG export failed, and both
\* files when both exports succeeded (whether or not the confirmation lines
\* were then printed); the SVG file is never there without the PNG file.
C1_PngBeforeSvg ==
    /\ Written(SvgPath) => Written(PngPath)
    /\ status = "done" => (Written(PngPath) /\ Written(SvgPath))
    /\ (status = "failed" /\ pc \in DOMAIN script) =>
          /\ (Stmt.op = "create_component" \/ (Stmt.op = "savefig" /\ Stmt.format = "png"))
                => (~Written(PngPath) /\ ~Written(SvgPath))
          /\ (Stmt.op = "savefig" /\ Stmt.format = "svg")
                => (Written(PngPath) /\ ~Written(SvgPath))
          /\ Stmt.op = "print" => (Written(PngPath) /\ Written(SvgPath))
          /\ Stmt.op \in {"create_component", "savefig", "print"}
    /\ (status = "failed" /\ pc \notin DOMAIN script)
          => (Written(PngPath) /\ Written(SvgPath))

\* The SVG export failed after the PNG export had succeeded.
C1_Witness ==
    /\ status = "failed" /\ exc = "OSError"
    /\ Stmt.op = "savefig" /\ Stmt.format = "svg"
    /\ Written(PngPath) /\ ~Written(SvgPath)

\* C2: create_component with a style key outside {frontend, state, api, ai,
\* data} raises a KeyError and leaves the Axes unchanged: no patch, no text.
C2_BadKeyFails ==
    [][ (At("create_component") /\ Stmt.color_key \notin NodeCategories)
          => (exc' = "KeyError" /\ status' = "failed" /\ ax' = ax) ]_vars

\* A key of the colour table that is no node category was refused after
\* earlier components had been drawn.
C2_Witness ==
    /\ status = "failed" /\ exc = "KeyError"
    /\ Stmt.op = "create_component"
    /\ Stmt.color_key \in {"arrow", "frontend_border"}
    /\ Len(ax.patches) > 0

\* C3: at export the Axes hold exactly 19 component boxes, 6 frontend, 1 state,
\* 4 api, 3 ai and 5 data, and one arrow per create_arrow call issued, 20.
C3_Counts ==
    AtExport =>
        /\ Count(ax.patches, IsBox) = 19
        /\ BoxesOf(ax.patches, "frontend") = 6
        /\ BoxesOf(ax.patches, "state") = 1
        /\ BoxesOf(ax.patches, "api") = 4
        /\ BoxesOf(ax.patches, "ai") = 3
        /\ BoxesOf(ax.patches, "data") = 5
        /\ Count(ax.patches, IsArrow) = ArrowCallsIssued
        /\ ArrowCallsIssued = 20
        /\ Len(ax.patches) = 39
        /\ \A p \in Paths : Written(p) =>
              /\ Count(files[p][1].patches, IsBox) = 19
              /\ Count(files[p][1].patches, IsArrow) = 20

\* Both files have been exported.
C3_Witness ==
    /\ Written(PngPath) /\ Written(SvgPath)
    /\ Count(files[SvgPath][1].patches, IsBox) = 19
    /\ Count(files[SvgPath][1].patches, IsArrow) = 20

\* C4: the phases Initialize, drawing, export, confirmation, done are passed in
\* this order and never re-entered; the figure is created once, before any
\* drawing; nothing is drawn once export has begun, so the Axes are the same
\* at the PNG export, at the SVG export and afterwards.
C4_Linear ==
    [][ /\ PhaseOf(pc', status') >= PhaseOf(pc, status)
        /\ ((pc \in DOMAIN script /\ Stmt.op = "subplots") => (~fig.created /\ pc = 1))
        /\ ((pc \in DOMAIN script /\ IsDrawing(Stmt.op)) =>
               (fig.created /\ ax.xlim = <<0, 1600>> /\ ax.ylim = <<0, 1200>>
                /\ ~Written(PngPath) /\ ~Written(SvgPath)))
        /\ (PhaseOf(pc, status) >= 2 => ax' = ax)
        /\ ((Written(PngPath)' /\ Written(SvgPath)') =>
               /\ files'[PngPath][1].patches = files'[SvgPath][1].patches
               /\ files'[PngPath][1].texts = files'[SvgPath][1].texts
               /\ files'[SvgPath][1].patches = ax'.patches)
      ]_vars

\* Both exports have happened, from a non-empty surface.
C4_Witness ==
    /\ status = "done"
    /\ Written(PngPath) /\ Written(SvgPath)
    /\ files[PngPath][1].patches = files[SvgPath][1].patches
    /\ Len(files[SvgPath][1].patches) = 39

\* C5: a statement that raises ends the run at that statement with a non-zero
\* exit status, and no step is taken from a failed state; when it is a drawing
\* call (KeyError) or an export (OSError), the exit status is 1, nothing has
\* been printed and the failing statement changed neither Axes nor files.
C5_Fatal ==
    [][ /\ status # "failed"
        /\ (exc' # "none" <=> status' = "failed")
        /\ (status' = "failed" =>
               (exitcode' > 0 /\ pc' = pc /\ files' = files /\ ax' = ax))
        /\ ((status' = "failed" /\ pc \in DOMAIN script
               /\ Stmt.op \in {"create_component", "savefig"}) =>
               /\ exitcode' = 1
               /\ stdout' = <<>> /\ outbuf' = <<>>
               /\ exc' = IF Stmt.op = "create_component" THEN "KeyError" ELSE "OSError")
      ]_vars

\* A drawing call has failed with a lookup error before anything was exported.
C5_Witness ==
    /\ status = "failed" /\ exc = "KeyError" /\ exitcode = 1
    /\ Stmt.op = "create_component"
    /\ stdout = <<>> /\ ~Written(PngPath) /\ ~Written(SvgPath)

\* C6: without the directory public/ the run fails with an OSError at the
\* first export (the PNG one) and no output file exists.
C6_MissingDir ==
    ~fs.dirExists =>
        /\ \A p \in Paths : ~Written(p)
        /\ status # "done"
        /\ stdout = <<>> /\ outbuf = <<>>
        /\ status = "failed" =>
              (exc = "OSError" /\ Stmt.op = "savefig" /\ Stmt.fname = PngPath /\ exitcode = 1)
        /\ ~(pc \in DOMAIN script /\ Stmt.op = "savefig" /\ Stmt.fname = SvgPath)

\* The export has failed on the missing directory.
C6_Witness ==
    /\ ~fs.dirExists
    /\ status = "failed" /\ exc = "OSError"
    /\ Stmt.op = "savefig" /\ Stmt.fname = PngPath

\* C8 as stated: in the script as written no drawing call raises, and with a
\* writable target the run ends Done: PNG then SVG written, two lines printed,
\* only after both exports, exit status 0.
C8_WritableRunSucceeds ==
    /\ exc # "KeyError"
    /\ Written(SvgPath) => Written(PngPath)
    /\ (stdout # <<>> \/ outbuf # <<>>) => (Written(PngPath) /\ Written(SvgPath))
    /\ (Writable /\ Terminal) =>
          /\ status = "done" /\ exitcode = 0
          /\ Len(stdout) = 2
          /\ Written(PngPath) /\ Written(SvgPath)

\* C9: every component of the layout, and every box on the Axes in every
\* reachable state, lies within the extent [0, 16] x [0, 12].
C9_WithinExtent ==
    /\ \A i \in DOMAIN script : script[i].op = "create_component" =>
          /\ 0 <= script[i].x /\ script[i].x + script[i].width <= 1600
          /\ 0 <= script[i].y /\ script[i].y + script[i].height <= 1200
    /\ \A i \in DOMAIN ax.patches : IsBox(ax.patches[i]) =>
          /\ 0 <= ax.patches[i].x
          /\ ax.patches[i].x + ax.patches[i].width <= ax.xlim[2]
          /\ 0 <= ax.patches[i].y
          /\ ax.patches[i].y + ax.patches[i].height <= ax.ylim[2]
          /\ ax.xlim = <<0, 1600>> /\ ax.ylim = <<0, 1200>>

\* All 19 components are on the Axes.
C9_Witness ==
    /\ Count(ax.patches, IsBox) = 19
    /\ \E i \in DOMAIN ax.patches : ax.patches[i].x + ax.patches[i].width = 1550

\* C10: every arrow on the Axes starts inside the closed rectangle of one
\* component and ends inside that of a different one, and no two component
\* rectangles overlap.
C10_Anchored ==
    LET P == ax.patches
        B == { i \in DOMAIN P : IsBox(P[i]) }
    IN /\ \A i \in DOMAIN P : IsArrow(P[i]) =>
             \E m \in B : \E n \in B :
                 /\ m # n
                 /\ InRect(P[i].start, P[m])
                 /\ InRect(P[i].end, P[n])
       /\ \A m \in B : \A n \in B : m # n => Disjoint(P[m], P[n])

\* All 20 arrows and 19 components are on the Axes.
C10_Witness ==
    /\ Count(ax.patches, IsArrow) = 20
    /\ Count(ax.patches, IsBox) = 19

====
